---- MODULE Spec2Model ----
(***************************************************************************)
(* Topify Volume Estimator: the acquisition side of the repository and    *)
(* the estimator.                                                          *)
(*                                                                         *)
(*   src/util/dfs_client.py      DataForSEOClient: _post (permit, retry     *)
(*                               loop, backoff), fetch_keyword_analysis,   *)
(*                               bulk_fetch                                *)
(*   src/api_driver.py           fetch_keyword_data (required source, file)*)
(*   src/util/response_parser.py parse_api_responses(_from_dict)           *)
(*   src/main.py, src/web_server.py   the two consumers of the output file *)
(*   src/model.py                ChatGPTVolumeEstimator: fit_transform,    *)
(*                               set_lambdas, _compute_domain_share        *)
(*   src/util/hf_client.py       get_similarities                          *)
(*                                                                         *)
(* A request is one call of _post on the client.  In fetch_keyword_data    *)
(* the first call is the AI keyword volume source and the second the SERP  *)
(* source; in bulk_fetch request i is jobs[i].                             *)
(*                                                                         *)
(* Three specifications share the variables: Spec and FairSpec run the     *)
(* acquisition, ShareSpec applies _compute_domain_share to arrays of       *)
(* logits, EstSpec constructs an estimator and calls fit_transform and     *)
(* set_lambdas on it.                                                      *)
(***************************************************************************)
EXTENDS Integers, Sequences, FiniteSets, TLC

\* ------------------------------------------------------------- bounds
\* Longest jobs list handed to bulk_fetch (also the number of request slots).
MaxJobs == 2
\* Largest max_concurrency a caller of bulk_fetch constructs the client with.
MaxConcurrencyArg == 2

\* ---------------------------------------------------- program constants
\* DataForSEOClient.__init__(token, max_concurrency = 5)
DefaultMaxConcurrency == 5
\* for attempt in range(3)
AttemptBudget == 3
\* if attempt == 2: raise e
LastAttempt == 2
\* async with session.post(...) as resp: if resp.status == 200
StatusOk == 200
\* elif resp.status in {429, 500, 502, 503, 504}
TransientStatuses == {429, 500, 502, 503, 504}
\* The first and the second make_request of fetch_keyword_analysis.
AiCall == 1
SerpCall == 2

\* The statuses the remote service answers with in the model: success, two of
\* the transient ones, and one that is neither (404).
StatusCodes == {200, 429, 503, 404}
\* resp.status before a response has arrived for the current attempt.
NoStatus == 0
\* The attempt ended in an exception raised by session.post or resp.json():
\* connection error, the 60 s timeout, an undecodable body.
TransportFailure == -1

Requests == 1 .. MaxJobs

AiKey == "ai_keyword_search_volume"
SerpKey == "serp_google_organic_live_advanced"
Sources == {AiKey, SerpKey}

\* What a 200 body of the AI keyword endpoint parses to
\* (parse_ai_keyword_volume): an item with a positive volume, an item with
\* volume 0, or no item at all (failed task, empty result).
AiBodies == {"ai_volume", "ai_zero", "ai_noitems"}
\* What a 200 body of the SERP endpoint parses to (parse_serp_organic):
\* organic rows, a failed task (empty DataFrame), no task at all (serp_df
\* stays None), or a successful task without any organic item.
SerpBodies == {"serp_rows", "serp_failed", "serp_notasks", "serp_noorganic"}

VARIABLES
    entry,              \* which operation the caller invoked: none yet,
                        \* "fetch_keyword_data" or "bulk_fetch"
    max_concurrency,    \* the argument the client was constructed with
    semaphore,          \* asyncio.Semaphore._value: free permits
    pc,                 \* per request: idle, acquire, post, sleep, returned, raised
    attempt,            \* per request: the loop variable of _post
    status,             \* per request: resp.status of the current attempt
    result,             \* per request: the value _post returned
    posts,              \* per request: HTTP attempts issued so far
    transients,         \* per request: attempts answered with a transient status
    delays,             \* per request: the asyncio.sleep delays, in order
    fka,                \* position in fetch_keyword_analysis
    all_data,           \* the dict fetch_keyword_analysis builds
    fkd,                \* position in fetch_keyword_data
    custom_output_file, \* whether the caller passed an output path
    file,               \* what is at output_file: whether a file exists, its records
    jobs,               \* len(jobs) of bulk_fetch
    bulk,               \* position in bulk_fetch
    consumer,           \* which consumer read the output file
    pipeline,           \* how the consumer ended: running, result, error
    logits,             \* the array handed to _compute_domain_share
    shares,             \* what _compute_domain_share returned
    lambdas,            \* self.lambdas of the estimator
    alpha,              \* self.alpha of the estimator
    serp_frame,         \* the DataFrame the caller holds and passes as serp_df
    runs,               \* calls of fit_transform so far
    ret,                \* the last call of fit_transform: its arguments, whether
                        \* they are those of the call before, and the outcome
    last_set,           \* how the last set_lambdas ended
    vis_call,           \* a call of _compute_visibility on two ranks
    feat_call,          \* a call of _compute_feature_score on a row
    parse_call          \* a call of parse_serp_organic on a task result

vars == <<entry, max_concurrency, semaphore, pc, attempt, status, result, posts,
          transients, delays, fka, all_data, fkd, custom_output_file, file,
          jobs, bulk, consumer, pipeline, logits, shares,
          lambdas, alpha, serp_frame, runs, ret, last_set,
          vis_call, feat_call, parse_call>>

postVars == <<pc, attempt, status, result, posts, transients, delays>>
driverVars == <<fka, all_data, fkd, custom_output_file, file, consumer, pipeline>>
bulkVars == <<jobs, bulk>>
clientVars == <<entry, max_concurrency>>
shareVars == <<logits, shares>>
objectVars == <<lambdas, alpha, serp_frame, runs, ret, last_set>>
partVars == <<vis_call, feat_call, parse_call>>
estimatorVars == <<shareVars, objectVars, partVars>>

\* ------------------------------------------------------------- helpers
\* Fault variant: the delay written 2 * attempt.
BackoffDoubled(a) == 2 * a
\* await asyncio.sleep(2 ** attempt)
Backoff(a) == 2 ^ a

\* Fault variant: entering the guarded section without a free permit.
CanAcquireAlways(s) == TRUE
\* async with self.semaphore: __aenter__ proceeds when a permit is free.
CanAcquire(s) == s > 0

\* Fault variant: a way out of the guarded section that keeps the permit.
SemaphoreExitLeak(s) == s
\* async with self.semaphore: __aexit__, on every way out of the block.
SemaphoreExit(s) == s + 1

\* The output path: no file; a file an earlier run left there; a saved list.
NoFile == [exists |-> FALSE, records |-> <<>>]
StaleFile == [exists |-> TRUE,
              records |-> <<[endpoint |-> "earlier_run", data |-> "earlier_run"]>>]
Saved(records) == [exists |-> TRUE, records |-> records]

\* _compute_domain_share has not returned.
NoShares == [done |-> FALSE, exps |-> <<>>, sum |-> 0, eps |-> 0]

\* serp_df = None; a DataFrame with its columns and rows.
NoneFrame == [is_none |-> TRUE, columns |-> {}, rows |-> <<>>]
Frame(cols, rows) == [is_none |-> FALSE, columns |-> cols, rows |-> rows]

\* The columns of result_df before fit_transform has filled them.
NoDf ==
    [title |-> <<>>, description |-> <<>>, text_for_semantics |-> <<>>,
     vis |-> <<>>, sem |-> <<>>, auth |-> <<>>, feat |-> <<>>,
     est_clicks |-> <<>>, vis_scaled |-> <<>>, sem_scaled |-> <<>>,
     auth_scaled |-> <<>>, feat_scaled |-> <<>>, est_clicks_scaled |-> <<>>,
     logit |-> <<>>, domain_share |-> NoShares]

\* fit_transform raised kind after the scorer calls in calls.
Raised(kind, calls, sims) ==
    [status |-> kind, scorer_calls |-> calls, sims |-> sims, df |-> NoDf]

\* fit_transform has not been called.
NoRet ==
    [call |-> [serp_df |-> NoneFrame, keyword |-> "", lambdas |-> <<>>, alpha |-> 0],
     repeated |-> FALSE,
     out |-> Raised("none", <<>>, <<>>)]

Finished(r) == pc[r] \in {"returned", "raised"}
\* Inside the permit-guarded section of _post.
InFlight(r) == pc[r] \in {"post", "sleep"}

Bodies(r) ==
    IF entry = "bulk_fetch" THEN {"json"}
    ELSE IF r = AiCall THEN AiBodies ELSE SerpBodies

AcquisitionIdle ==
    /\ entry = "none"
    /\ max_concurrency = 0
    /\ semaphore = 0
    /\ pc = [r \in Requests |-> "idle"]
    /\ attempt = [r \in Requests |-> 0]
    /\ status = [r \in Requests |-> NoStatus]
    /\ result = [r \in Requests |-> "unset"]
    /\ posts = [r \in Requests |-> 0]
    /\ transients = [r \in Requests |-> 0]
    /\ delays = [r \in Requests |-> <<>>]
    /\ fka = "none"
    /\ all_data = <<>>
    /\ fkd = "none"
    /\ custom_output_file = FALSE
    /\ file = NoFile
    /\ jobs = 0
    /\ bulk = "none"
    /\ consumer = "none"
    /\ pipeline = "none"

\* _compute_domain_share has not been called.
ShareIdle ==
    /\ logits = <<>>
    /\ shares = NoShares

\* No estimator has been constructed.
ObjectIdle ==
    /\ lambdas = <<>>
    /\ alpha = 0
    /\ serp_frame = NoneFrame
    /\ runs = 0
    /\ ret = NoRet
    /\ last_set = "none"

\* No part of the estimator or of the parser has been called on its own.
NoVisCall == [done |-> FALSE, alpha |-> 0, ranks |-> <<>>, out |-> <<>>]
NoFeatCall ==
    [done |-> FALSE, columns |-> {},
     row |-> [is_featured_snippet |-> "None", in_people_also_ask |-> "None"],
     out |-> 0]
NoParseCall ==
    [done |-> FALSE, status_code |-> 0, items |-> <<>>,
     out |-> [raised |-> FALSE, records |-> <<>>]]

PartIdle ==
    /\ vis_call = NoVisCall
    /\ feat_call = NoFeatCall
    /\ parse_call = NoParseCall

EstimatorIdle == ShareIdle /\ ObjectIdle /\ PartIdle

Init == AcquisitionIdle /\ EstimatorIdle

\* ------------------------------------------------------------- _post
\* async with self.semaphore, then the first session.post of the loop.
Acquire(r) ==
    /\ pc[r] = "acquire"
    /\ CanAcquire(semaphore)
    /\ semaphore' = semaphore - 1
    /\ pc' = [pc EXCEPT ![r] = "post"]
    /\ attempt' = [attempt EXCEPT ![r] = 0]
    /\ status' = [status EXCEPT ![r] = NoStatus]
    /\ posts' = [posts EXCEPT ![r] = 1]
    /\ UNCHANGED <<result, transients, delays>>
    /\ UNCHANGED <<clientVars, driverVars, bulkVars>>
    /\ UNCHANGED estimatorVars

\* resp.status == 200: return await resp.json()
RespondOk(r, body) ==
    /\ pc[r] = "post"
    /\ status' = [status EXCEPT ![r] = StatusOk]
    /\ pc' = [pc EXCEPT ![r] = "returned"]
    /\ result' = [result EXCEPT ![r] = body]
    /\ semaphore' = SemaphoreExit(semaphore)
    /\ UNCHANGED <<attempt, posts, transients, delays>>
    /\ UNCHANGED <<clientVars, driverVars, bulkVars>>
    /\ UNCHANGED estimatorVars

\* Fault variant: a transient status going on to the next attempt with no sleep.
RespondTransientNoSleep(r, s) ==
    /\ pc[r] = "post"
    /\ s \in TransientStatuses
    /\ status' = [status EXCEPT ![r] = s]
    /\ transients' = [transients EXCEPT ![r] = @ + 1]
    /\ pc' = [pc EXCEPT ![r] = "sleep"]
    /\ UNCHANGED <<semaphore, attempt, result, posts, delays>>
    /\ UNCHANGED <<clientVars, driverVars, bulkVars>>
    /\ UNCHANGED estimatorVars

\* resp.status in {429, 500, 502, 503, 504}: await asyncio.sleep(2 ** attempt)
RespondTransient(r, s) ==
    /\ pc[r] = "post"
    /\ s \in TransientStatuses
    /\ status' = [status EXCEPT ![r] = s]
    /\ transients' = [transients EXCEPT ![r] = @ + 1]
    /\ pc' = [pc EXCEPT ![r] = "sleep"]
    /\ delays' = [delays EXCEPT ![r] = Append(@, Backoff(attempt[r]))]
    /\ UNCHANGED <<semaphore, attempt, result, posts>>
    /\ UNCHANGED <<clientVars, driverVars, bulkVars>>
    /\ UNCHANGED estimatorVars

\* except Exception as e: if attempt == 2: raise e
\*                        await asyncio.sleep(2 ** attempt)
HandlerRaises(r) ==
    /\ pc' = [pc EXCEPT ![r] = "raised"]
    /\ semaphore' = SemaphoreExit(semaphore)
    /\ UNCHANGED <<attempt, result, posts, transients, delays>>

HandlerSleeps(r) ==
    /\ pc' = [pc EXCEPT ![r] = "sleep"]
    /\ delays' = [delays EXCEPT ![r] = Append(@, Backoff(attempt[r]))]
    /\ UNCHANGED <<semaphore, attempt, result, posts, transients>>

ExceptHandler(r) ==
    IF attempt[r] = LastAttempt THEN HandlerRaises(r) ELSE HandlerSleeps(r)

\* Any other status: raise Exception("API Error ..."), inside the try block,
\* so the handler of the same try statement catches it.
RespondOther(r, s) ==
    /\ pc[r] = "post"
    /\ s # StatusOk
    /\ s \notin TransientStatuses
    /\ status' = [status EXCEPT ![r] = s]
    /\ ExceptHandler(r)
    /\ UNCHANGED <<clientVars, driverVars, bulkVars>>
    /\ UNCHANGED estimatorVars

\* session.post or resp.json() raises (connection error, timeout=60, bad body).
RespondException(r) ==
    /\ pc[r] = "post"
    /\ status' = [status EXCEPT ![r] = TransportFailure]
    /\ ExceptHandler(r)
    /\ UNCHANGED <<clientVars, driverVars, bulkVars>>
    /\ UNCHANGED estimatorVars

\* The sleep is over: the for loop takes its next value, or is exhausted and
\* the function ends without a return statement (None).
Wake(r) ==
    /\ pc[r] = "sleep"
    /\ attempt' = [attempt EXCEPT ![r] = @ + 1]
    /\ IF attempt[r] + 1 < AttemptBudget
       THEN /\ pc' = [pc EXCEPT ![r] = "post"]
            /\ status' = [status EXCEPT ![r] = NoStatus]
            /\ posts' = [posts EXCEPT ![r] = @ + 1]
            /\ UNCHANGED <<semaphore, result>>
       ELSE /\ pc' = [pc EXCEPT ![r] = "returned"]
            /\ result' = [result EXCEPT ![r] = "None"]
            /\ semaphore' = SemaphoreExit(semaphore)
            /\ UNCHANGED <<status, posts>>
    /\ UNCHANGED <<transients, delays>>
    /\ UNCHANGED <<clientVars, driverVars, bulkVars>>
    /\ UNCHANGED estimatorVars

\* -------------------------------------------------------- bulk_fetch
\* A caller constructs a client and hands bulk_fetch a list of jobs:
\* one _post coroutine per job, all started by asyncio.gather.
bulk_fetch(mc, n) ==
    /\ entry = "none"
    /\ entry' = "bulk_fetch"
    /\ max_concurrency' = mc
    /\ semaphore' = mc
    /\ jobs' = n
    /\ bulk' = "gather"
    /\ pc' = [r \in Requests |-> IF r <= n THEN "acquire" ELSE "idle"]
    /\ UNCHANGED <<attempt, status, result, posts, transients, delays>>
    /\ UNCHANGED driverVars
    /\ UNCHANGED estimatorVars

\* return await asyncio.gather(*coroutines, return_exceptions=True)
bulk_fetch_return ==
    /\ bulk = "gather"
    /\ \A r \in 1 .. jobs : Finished(r)
    /\ bulk' = "returned"
    /\ UNCHANGED <<jobs, clientVars, semaphore, postVars, driverVars>>
    /\ UNCHANGED estimatorVars

\* ------------------------------------------- fetch_keyword_analysis
\* dict.get(key): None for a missing key.
Get(d, k) == IF k \in DOMAIN d THEN d[k] ELSE "None"

\* try: data = await self.make_request(...); all_data[key] = data
\* except Exception: all_data[key] = None
SourceValue(r) == IF pc[r] = "raised" THEN "None" ELSE result[r]

\* Fault variant: both make_request calls started together, as a gather would.
fetch_keyword_data_gather(custom, existing) ==
    /\ entry = "none"
    /\ existing => custom
    /\ entry' = "fetch_keyword_data"
    /\ max_concurrency' = DefaultMaxConcurrency
    /\ semaphore' = DefaultMaxConcurrency
    /\ custom_output_file' = custom
    /\ file' = IF existing THEN StaleFile ELSE NoFile
    /\ fkd' = "await_analysis"
    /\ fka' = "ai"
    /\ all_data' = <<>>
    /\ pc' = [pc EXCEPT ![AiCall] = "acquire", ![SerpCall] = "acquire"]
    /\ UNCHANGED <<attempt, status, result, posts, transients, delays>>
    /\ UNCHANGED <<bulkVars, consumer, pipeline>>
    /\ UNCHANGED estimatorVars

\* fetch_keyword_data: client = DataForSEOClient(token); the output path is the
\* caller's (where a file may already be) or a fresh unique name; then
\* fetch_keyword_analysis starts with its first make_request.
fetch_keyword_data(custom, existing) ==
    /\ entry = "none"
    /\ existing => custom
    /\ entry' = "fetch_keyword_data"
    /\ max_concurrency' = DefaultMaxConcurrency
    /\ semaphore' = DefaultMaxConcurrency
    /\ custom_output_file' = custom
    /\ file' = IF existing THEN StaleFile ELSE NoFile
    /\ fkd' = "await_analysis"
    /\ fka' = "ai"
    /\ all_data' = <<>>
    /\ pc' = [pc EXCEPT ![AiCall] = "acquire"]
    /\ UNCHANGED <<attempt, status, result, posts, transients, delays>>
    /\ UNCHANGED <<bulkVars, consumer, pipeline>>
    /\ UNCHANGED estimatorVars

\* Fault variant: a failure of the first source ends fetch_keyword_analysis.
AiSourceDoneAbort ==
    /\ fka = "ai"
    /\ Finished(AiCall)
    /\ IF pc[AiCall] = "raised"
       THEN /\ fka' = "returned"
            /\ UNCHANGED <<all_data, pc>>
       ELSE /\ all_data' = (AiKey :> SourceValue(AiCall)) @@ all_data
            /\ fka' = "serp"
            /\ pc' = [pc EXCEPT ![SerpCall] = "acquire"]
    /\ UNCHANGED <<attempt, status, result, posts, transients, delays>>
    /\ UNCHANGED <<clientVars, semaphore, bulkVars>>
    /\ UNCHANGED <<fkd, custom_output_file, file, consumer, pipeline>>
    /\ UNCHANGED estimatorVars

\* 1. AI keyword search volume has ended; 2. the SERP request is made.
AiSourceDone ==
    /\ fka = "ai"
    /\ Finished(AiCall)
    /\ all_data' = (AiKey :> SourceValue(AiCall)) @@ all_data
    /\ fka' = "serp"
    /\ pc' = [pc EXCEPT ![SerpCall] = "acquire"]
    /\ UNCHANGED <<attempt, status, result, posts, transients, delays>>
    /\ UNCHANGED <<clientVars, semaphore, bulkVars>>
    /\ UNCHANGED <<fkd, custom_output_file, file, consumer, pipeline>>
    /\ UNCHANGED estimatorVars

\* 2. SERP data has ended; return all_data.
SerpSourceDone ==
    /\ fka = "serp"
    /\ Finished(SerpCall)
    /\ all_data' = (SerpKey :> SourceValue(SerpCall)) @@ all_data
    /\ fka' = "returned"
    /\ UNCHANGED <<clientVars, semaphore, postVars, bulkVars>>
    /\ UNCHANGED <<fkd, custom_output_file, file, consumer, pipeline>>
    /\ UNCHANGED estimatorVars

\* ----------------------------------------------- fetch_keyword_data
\* Fault variant: any source with data counts as valid.
has_valid_any(d) == \E k \in Sources : Get(d, k) # "None"
\* has_valid_serp = all_data.get("serp_google_organic_live_advanced") is not None
has_valid_serp(d) == Get(d, SerpKey) # "None"

\* The insertion order of all_data, which all_data.items() follows.
KeyOrder == <<AiKey, SerpKey>>

\* for endpoint, data in all_data.items():
\*     if data is not None: formatted_data.append({"endpoint": ..., "data": ...})
RECURSIVE Format(_, _)
Format(d, keys) ==
    IF keys = <<>> THEN <<>>
    ELSE LET k == Head(keys)
             rest == Format(d, Tail(keys))
         IN IF k \in DOMAIN d /\ d[k] # "None"
            THEN <<[endpoint |-> k, data |-> d[k]]>> \o rest
            ELSE rest

formatted_data(d) == Format(d, KeyOrder)

\* Fault variant: raising without removing the file at the output path.
fetch_keyword_data_finish_keeping_file ==
    /\ fkd = "await_analysis"
    /\ fka = "returned"
    /\ IF ~has_valid_serp(all_data)
       THEN /\ fkd' = "raised"
            /\ UNCHANGED file
       ELSE /\ file' = Saved(formatted_data(all_data))
            /\ fkd' = "returned"
    /\ UNCHANGED <<clientVars, semaphore, postVars, bulkVars>>
    /\ UNCHANGED <<fka, all_data, custom_output_file, consumer, pipeline>>
    /\ UNCHANGED estimatorVars

\* The part of fetch_keyword_data after the await: no valid SERP data deletes
\* the file at the output path and raises; otherwise the records are saved.
fetch_keyword_data_finish ==
    /\ fkd = "await_analysis"
    /\ fka = "returned"
    /\ IF ~has_valid_serp(all_data)
       THEN /\ file' = NoFile
            /\ fkd' = "raised"
       ELSE /\ file' = Saved(formatted_data(all_data))
            /\ fkd' = "returned"
    /\ UNCHANGED <<clientVars, semaphore, postVars, bulkVars>>
    /\ UNCHANGED <<fka, all_data, custom_output_file, consumer, pipeline>>
    /\ UNCHANGED estimatorVars

\* ------------------------------------------------- response_parser
\* The data of the records of output file f saved for endpoint key.
DataOf(f, key) ==
    {f.records[i].data :
        i \in {j \in 1 .. Len(f.records) : f.records[j].endpoint = key}}

\* The loop shared by parse_api_responses and parse_api_responses_from_dict:
\* keyword and volume stay empty lists and serp_df stays None unless a record
\* of the file fills them; parse_serp_organic raises KeyError('domain') on a
\* successful task without organic items (df["domain"] of an empty frame).
ParseLoop(f) ==
    [keyword |-> IF DataOf(f, AiKey) \cap {"ai_volume", "ai_zero"} # {}
                 THEN "keyword" ELSE "empty",
     volume  |-> IF "ai_volume" \in DataOf(f, AiKey) THEN "positive"
                 ELSE IF "ai_zero" \in DataOf(f, AiKey) THEN "zero"
                 ELSE "empty",
     serp_df |-> IF "serp_rows" \in DataOf(f, SerpKey) THEN "rows"
                 ELSE IF "serp_failed" \in DataOf(f, SerpKey) THEN "empty"
                 ELSE "None",
     raised  |-> "serp_noorganic" \in DataOf(f, SerpKey)]

\* parse_api_responses: return {"keyword": keyword[0], "volume": volume[0], ...}
\* raises IndexError on an empty keyword list.
parse_api_responses(f) ==
    LET p == ParseLoop(f)
    IN [p EXCEPT !.raised = p.raised \/ p.keyword = "empty"]

\* parse_api_responses_from_dict: keyword[0] if keyword else None,
\* volume[0] if volume else 0.
parse_api_responses_from_dict(f) ==
    LET p == ParseLoop(f)
    IN [p EXCEPT !.keyword = IF p.keyword = "empty" THEN "None" ELSE p.keyword,
                 !.volume = IF p.volume = "empty" THEN "zero" ELSE p.volume]

\* ChatGPTVolumeEstimator.fit_transform: ValueError on a None or empty frame.
fit_transform_raises(serp_df) == serp_df \in {"None", "empty"}

\* main.py, ChatGPTVolumeDriver.run_pipeline on the output path: load_data
\* (FileNotFoundError, parse_api_responses, len(data['serp_df'])), process_data.
run_pipeline_outcome(f) ==
    IF ~f.exists THEN "error"
    ELSE LET p == parse_api_responses(f)
         IN IF p.raised THEN "error"
            ELSE IF p.serp_df = "None" THEN "error"
            ELSE IF fit_transform_raises(p.serp_df) THEN "error"
            ELSE "result"

run_pipeline ==
    /\ fkd \in {"returned", "raised"}
    /\ consumer = "none"
    /\ consumer' = "main"
    /\ pipeline' = run_pipeline_outcome(file)
    /\ UNCHANGED <<clientVars, semaphore, postVars, bulkVars>>
    /\ UNCHANGED <<fka, all_data, fkd, custom_output_file, file>>
    /\ UNCHANGED estimatorVars

\* web_server.py, analyze: get_or_fetch_data calls fetch_keyword_data without
\* an output path; a raised fetch is answered with 'Failed to fetch data',
\* and so is serp_df None, keyword None or volume 0 after the parse.
analyze_outcome(f) ==
    IF fkd = "raised" THEN "error"
    ELSE LET p == parse_api_responses_from_dict(f)
         IN IF p.raised THEN "error"
            ELSE IF p.serp_df = "None" THEN "error"
            ELSE IF p.keyword = "None" THEN "error"
            ELSE IF p.volume = "zero" THEN "error"
            ELSE IF fit_transform_raises(p.serp_df) THEN "error"
            ELSE "result"

analyze ==
    /\ fkd \in {"returned", "raised"}
    /\ ~custom_output_file
    /\ consumer = "none"
    /\ consumer' = "web"
    /\ pipeline' = analyze_outcome(file)
    /\ UNCHANGED <<clientVars, semaphore, postVars, bulkVars>>
    /\ UNCHANGED <<fka, all_data, fkd, custom_output_file, file>>
    /\ UNCHANGED estimatorVars

Next ==
    \/ \E mc \in 1 .. MaxConcurrencyArg, n \in 1 .. MaxJobs : bulk_fetch(mc, n)
    \/ bulk_fetch_return
    \/ \E r \in Requests : Acquire(r)
    \/ \E r \in Requests : \E b \in Bodies(r) : RespondOk(r, b)
    \/ \E r \in Requests, s \in StatusCodes : RespondTransient(r, s)
    \/ \E r \in Requests, s \in StatusCodes : RespondOther(r, s)
    \/ \E r \in Requests : RespondException(r)
    \/ \E r \in Requests : Wake(r)
    \/ \E custom \in BOOLEAN, existing \in BOOLEAN : fetch_keyword_data(custom, existing)
    \/ AiSourceDone
    \/ SerpSourceDone
    \/ fetch_keyword_data_finish
    \/ run_pipeline
    \/ analyze

Spec == Init /\ [][Next]_vars

\* Every network call ends within its timeout, as a response or as a
\* transport failure.
Respond(r) ==
    \/ \E b \in Bodies(r) : RespondOk(r, b)
    \/ \E s \in StatusCodes : RespondTransient(r, s)
    \/ \E s \in StatusCodes : RespondOther(r, s)
    \/ RespondException(r)

\* The event loop runs every coroutine that can run: a waiter gets a free
\* permit, a network call ends, a sleep ends, an awaiting caller resumes.
\* Nothing obliges a caller to invoke an entry point or a consumer.
Fairness ==
    /\ \A r \in Requests : WF_vars(Acquire(r))
    /\ \A r \in Requests : WF_vars(Respond(r))
    /\ \A r \in Requests : WF_vars(Wake(r))
    /\ WF_vars(AiSourceDone)
    /\ WF_vars(SerpSourceDone)
    /\ WF_vars(fetch_keyword_data_finish)
    /\ WF_vars(bulk_fetch_return)

FairSpec == Init /\ [][Next]_vars /\ Fairness

\* ------------------------------------------------------------ claims
Fatal(s) == s \in StatusCodes /\ s # 200 /\ s \notin {429, 500, 502, 503, 504}
NumInFlight == Cardinality({r \in Requests : InFlight(r)})
SerpAbsent == SerpKey \notin DOMAIN all_data \/ all_data[SerpKey] = "None"
AiAbsent == AiKey \notin DOMAIN all_data \/ all_data[AiKey] = "None"

\* C1: a response whose status is neither 200 nor transient is raised to the
\* caller of _post on the attempt where it occurs: the request is never found
\* in a backoff sleep after such a response.
C1_FatalRaisedImmediately ==
    \A r \in Requests : Fatal(status[r]) => pc[r] = "raised"

\* C2: a request whose three attempts were all answered with a transient
\* status ends in an error raised to the caller of _post; it never completes
\* normally with a value.
C2_ExhaustedTransientRaises ==
    \A r \in Requests : transients[r] = 3 => pc[r] # "returned"

\* C3: when the SERP result is absent after fetch_keyword_analysis attempted
\* both sources, fetch_keyword_data ends by raising, nothing is at the output
\* path and nothing is returned, whatever the AI keyword source gave.
C3_PrimaryRequired ==
    (fkd \in {"returned", "raised"} /\ SerpAbsent) =>
        /\ fkd = "raised"
        /\ ~file.exists
        /\ posts[AiCall] >= 1
        /\ posts[SerpCall] >= 1

\* C3 witness: the SERP source failed, the AI keyword source succeeded, and
\* fetch_keyword_data raised.
C3_Witness ==
    /\ fkd = "raised"
    /\ pc[SerpCall] = "raised"
    /\ AiKey \in DOMAIN all_data
    /\ all_data[AiKey] \in AiBodies

\* C4: when the SERP source succeeded and the AI keyword source is absent,
\* acquisition writes its output and the consumer of that output ends with a
\* result, not with an error.
C4_OptionalAbsentCompletes ==
    (fkd = "returned" /\ AiAbsent /\ consumer # "none") =>
        /\ file.exists
        /\ pipeline = "result"

\* C5: the number of requests inside the permit-guarded section of _post never
\* exceeds max_concurrency.
C5_BoundedInFlight == NumInFlight <= max_concurrency

\* C5 witness: more jobs than permits, every permit taken, a request waiting.
C5_Witness ==
    /\ entry = "bulk_fetch"
    /\ jobs > max_concurrency
    /\ NumInFlight = max_concurrency
    /\ \E r \in Requests : pc[r] = "acquire"

\* C6: when fetch_keyword_analysis returns, both sources were requested and
\* the map has one key per source: the response where the request got a 200
\* body, null otherwise.
C6_EverySourceAttempted ==
    fka = "returned" =>
        /\ DOMAIN all_data = Sources
        /\ posts[AiCall] >= 1
        /\ posts[SerpCall] >= 1
        /\ all_data[AiKey] =
             (IF status[AiCall] = 200 THEN result[AiCall] ELSE "None")
        /\ all_data[SerpKey] =
             (IF status[SerpCall] = 200 THEN result[SerpCall] ELSE "None")
        /\ status[AiCall] = 200 => all_data[AiKey] \in AiBodies
        /\ status[SerpCall] = 200 => all_data[SerpKey] \in SerpBodies

\* C6 witness: the first source raised, the second was still requested and
\* answered, and fetch_keyword_analysis returned.
C6_Witness ==
    /\ fka = "returned"
    /\ pc[AiCall] = "raised"
    /\ status[SerpCall] = 200

\* C7 as claimed: the SERP request does not wait for the AI keyword request,
\* so once the AI keyword request has had its first response the SERP request
\* has been made.
C7_SourcesInParallel ==
    (entry = "fetch_keyword_data" /\ status[AiCall] # NoStatus) =>
        pc[SerpCall] # "idle"

\* C7 as amended: the sources are requested one after the other: the SERP
\* request is made only when the AI keyword request has ended, and the two are
\* never in flight together.
C7_SourcesSequential ==
    entry = "fetch_keyword_data" =>
        /\ pc[SerpCall] # "idle" => Finished(AiCall)
        /\ ~(InFlight(AiCall) /\ InFlight(SerpCall))

\* C7 witness: the SERP request in flight after the AI keyword request went
\* through all its attempts.
C7_Witness ==
    /\ entry = "fetch_keyword_data"
    /\ InFlight(SerpCall)
    /\ posts[AiCall] = 3
    /\ Finished(AiCall)

\* C8: a call of _post makes at most 3 HTTP attempts, one at a time: attempt
\* k+1 is posted only after attempt k ended and its delay was slept, and the
\* delay after the k-th attempt (k = 0, 1, 2) is 2^k.
C8_RetryDiscipline ==
    \A r \in Requests :
        /\ posts[r] <= 3
        /\ Len(delays[r]) <= posts[r]
        /\ \A i \in 1 .. Len(delays[r]) : delays[r][i] = 2 ^ (i - 1)
        /\ pc[r] = "post" => Len(delays[r]) = posts[r] - 1
        /\ pc[r] = "sleep" => Len(delays[r]) = posts[r]
        /\ Finished(r) => Len(delays[r]) \in {posts[r] - 1, posts[r]}

\* C8 witness: a third attempt in flight after transport failures and
\* rejected responses, with both delays behind it.
C8_Witness ==
    \E r \in Requests :
        /\ pc[r] = "post"
        /\ posts[r] = 3
        /\ transients[r] = 0
        /\ delays[r] = <<1, 2>>

\* C9: a request answered with a transient status on its first two attempts
\* and with 200 on the third returns the response, after exactly two delays,
\* 1 and then 2.
C9_ThirdAttemptSucceeds ==
    \A r \in Requests :
        (posts[r] = 3 /\ transients[r] = 2 /\ status[r] = 200) =>
            /\ pc[r] = "returned"
            /\ result[r] \in Bodies(r)
            /\ delays[r] = <<1, 2>>

\* C9 witness: such a request has returned.
C9_Witness ==
    \E r \in Requests :
        /\ posts[r] = 3
        /\ transients[r] = 2
        /\ status[r] = 200
        /\ pc[r] = "returned"

\* C10: every call of _post eventually returns or raises, every call of
\* fetch_keyword_analysis eventually returns and so does bulk_fetch, whatever
\* the remote service answers.
C10_NoIndefiniteBlocking ==
    /\ \A r \in Requests : (pc[r] = "acquire") ~> Finished(r)
    /\ (fka = "ai") ~> (fka = "returned")
    /\ (bulk = "gather") ~> (bulk = "returned")

\* C10 witness: bulk_fetch returned with more jobs than permits, one of the
\* jobs having used all its attempts.
C10_Witness ==
    /\ bulk = "returned"
    /\ jobs > max_concurrency
    /\ \E r \in Requests : posts[r] = 3 /\ Finished(r)


\* ===================================================== the estimator
\* src/model.py, ChatGPTVolumeEstimator.  Floating-point values are carried in
\* fixed point: the integer v stands for v / Scale.
Scale == 1000

\* np.exp returns 0.0 below this argument (float64 underflow).
ExpUnderflow == -745
\* The 1e-12 added to the denominator of the shares, counted in units of 1e-12.
Epsilon == 1

\* Longest array handed to _compute_domain_share.
MaxLogits == 3
\* Two clusters of logits: around 0, and 800 below.  Within a cluster the
\* differences are at most 1.5; across the clusters they exceed 745.
LogitValues == {-801 * Scale, -800 * Scale, 0, Scale \div 2, Scale}
LogitArrays == UNION {[1 .. n -> LogitValues] : n \in 1 .. MaxLogits}

RECURSIVE SumSeq(_)
SumSeq(a) == IF a = <<>> THEN 0 ELSE Head(a) + SumSeq(Tail(a))

\* np.max / np.min of a non-empty array.
ArrayMax(a) == CHOOSE m \in {a[i] : i \in DOMAIN a} : \A i \in DOMAIN a : a[i] <= m
ArrayMin(a) == CHOOSE m \in {a[i] : i \in DOMAIN a} : \A i \in DOMAIN a : m <= a[i]

\* The series 1 + x + x^2/2! + ... for x >= 0, term by term until the terms
\* vanish at the precision of Scale.
RECURSIVE ExpSeries(_, _, _)
ExpSeries(x, k, term) ==
    IF term = 0 THEN 0
    ELSE term + ExpSeries(x, k + 1, (term * x) \div (Scale * (k + 1)))

\* np.exp: 0.0 once the argument underflows, 1 / exp(-x) for the other
\* negative arguments.
NpExp(x) ==
    IF x >= 0 THEN ExpSeries(x, 0, Scale)
    ELSE IF x < ExpUnderflow * Scale THEN 0
    ELSE (Scale * Scale) \div ExpSeries(-x, 0, Scale)

\* Fault variant: exponentiating the logits without subtracting their maximum.
compute_domain_share_unshifted(l) ==
    LET exps == [i \in DOMAIN l |-> NpExp(l[i])]
    IN [done |-> TRUE, exps |-> exps, sum |-> SumSeq(exps), eps |-> Epsilon]

\* Fault variant: the shares handed back in reversed order.
compute_domain_share_reversed(l) ==
    LET exps == [i \in DOMAIN l |-> NpExp(l[Len(l) + 1 - i] - ArrayMax(l))]
    IN [done |-> TRUE, exps |-> exps, sum |-> SumSeq(exps), eps |-> Epsilon]

\* Fault variant: the denominator without the 1e-12.
compute_domain_share_no_epsilon(l) ==
    LET exps == [i \in DOMAIN l |-> NpExp(l[i] - ArrayMax(l))]
    IN [done |-> TRUE, exps |-> exps, sum |-> SumSeq(exps), eps |-> 0]

\* _compute_domain_share: exps = np.exp(logits - np.max(logits))
\*                        return exps / (exps.sum() + 1e-12)
\* The quotient is kept as a fraction: share i is
\*     exps[i] / (sum + eps * 1e-12)
\* so that shares of one result compare as their numerators do.
compute_domain_share(l) ==
    LET exps == [i \in DOMAIN l |-> NpExp(l[i] - ArrayMax(l))]
    IN [done |-> TRUE, exps |-> exps, sum |-> SumSeq(exps), eps |-> Epsilon]

\* A caller hands an array of finite logits to _compute_domain_share.
ShareInit ==
    /\ AcquisitionIdle
    /\ ObjectIdle
    /\ PartIdle
    /\ logits \in LogitArrays
    /\ shares = NoShares

domain_share ==
    /\ ~shares.done
    /\ shares' = compute_domain_share(logits)
    /\ UNCHANGED <<logits, objectVars, partVars>>
    /\ UNCHANGED <<clientVars, semaphore, postVars, driverVars, bulkVars>>

ShareNext == domain_share

ShareSpec == ShareInit /\ [][ShareNext]_vars

\* 1e-12 / 1e-9, the epsilon over the tolerance, in fixed point.
EpsilonOverTolerance == Scale \div 1000

\* C11: for every non-empty array of finite logits the shares are all
\* non-negative and their sum differs from 1 by less than 1e-9.  The shares
\* are exps[i] / (sum + 1e-12) with exps[i] >= 0; their sum is
\* sum / (sum + 1e-12), which is within 1e-9 of 1 exactly when
\* sum > 1e-12 / 1e-9 - 1e-12, that is when sum reaches 1e-3.
C11_SharesSumToOne ==
    shares.done =>
        /\ \A i \in DOMAIN shares.exps : shares.exps[i] >= 0
        /\ shares.sum = SumSeq(shares.exps)
        /\ shares.sum >= EpsilonOverTolerance
        /\ shares.eps = Epsilon

C11_Witness ==
    /\ shares.done
    /\ Len(logits) = MaxLogits
    /\ ArrayMax(logits) < ExpUnderflow * Scale
    /\ ArrayMin(logits) < ArrayMax(logits)

\* C15 as stated: a strictly greater logit gets a strictly greater share, and
\* equal logits get equal shares.
C15_StrictlyMonotone ==
    shares.done =>
        \A i, j \in DOMAIN logits :
            /\ logits[i] > logits[j] => shares.exps[i] > shares.exps[j]
            /\ logits[i] = logits[j] => shares.exps[i] = shares.exps[j]

\* C15: a strictly greater logit never gets a smaller share, and equal logits
\* get equal shares.
C15_WeaklyMonotone ==
    shares.done =>
        \A i, j \in DOMAIN logits :
            /\ logits[i] > logits[j] => shares.exps[i] >= shares.exps[j]
            /\ logits[i] = logits[j] => shares.exps[i] = shares.exps[j]

C15_Witness ==
    /\ shares.done
    /\ \E i, j \in DOMAIN logits :
        /\ logits[i] > logits[j]
        /\ shares.exps[i] > shares.exps[j]
    /\ \E i, j \in DOMAIN logits :
        /\ logits[i] > logits[j]
        /\ shares.exps[i] = shares.exps[j]

\* ------------------------------------------------ fit_transform: inputs
\* A missing cell of a text column (None / NaN).
NaN == "NaN"
\* A rank_absolute cell that is None or NaN.
NoRank == -1

AllColumns == {"rank_absolute", "title", "description",
               "is_featured_snippet", "in_people_also_ask"}
\* Fault variant: only the rank column required.
required_columns_rank_only == {"rank_absolute"}
\* required_columns = ['rank_absolute', 'title', 'description']
required_columns == {"rank_absolute", "title", "description"}

Entry(r, t, d, fs, paa) ==
    [rank_absolute |-> r, title |-> t, description |-> d,
     is_featured_snippet |-> fs, in_people_also_ask |-> paa]

\* The rows a SERP parse hands over in the model: the same page at ranks 1, 2
\* and 3 without description, a page with a featured snippet, and a row
\* without rank and title that has both flags.
EntryPool ==
    {Entry(1, "ai video", NaN, "False", "False"),
     Entry(2, "ai video", NaN, "False", "False"),
     Entry(3, "ai video", NaN, "False", "False"),
     Entry(2, "cats", "video", "True", "False"),
     Entry(NoRank, NaN, "cats dogs", "True", "True")}

\* Most rows of a batch.
MaxBatch == 3
RowSeqs == UNION {[1 .. n -> EntryPool] : n \in 1 .. MaxBatch}

\* The frames a caller passes: None, an empty frame, every batch with all the
\* columns, and the one-row batches with one column missing.
Frames ==
    {NoneFrame, Frame(AllColumns, <<>>)}
    \cup {Frame(AllColumns, rows) : rows \in RowSeqs}
    \cup {Frame(AllColumns \ {c}, rows) :
            c \in AllColumns, rows \in {r \in RowSeqs : Len(r) = 1}}

\* The query of the run.
Keyword == "ai video"

\* The weight vectors a caller constructs the estimator with or hands to
\* set_lambdas: the default of the estimator, the default of the driver
\* (main.py), one with a zero and a negative weight, one too short and one
\* too long.
LambdaVectors ==
    {<<Scale, Scale, Scale, Scale, Scale>>,
     <<(3 * Scale) \div 2, Scale, Scale, Scale, Scale>>,
     <<-Scale, 0, 2 * Scale, Scale \div 2, 3 * Scale>>,
     <<Scale, Scale, Scale, Scale>>,
     <<Scale, Scale, Scale, Scale, Scale, Scale>>}

\* alpha: no decay, and the default 0.15.
Alphas == {0, (15 * Scale) \div 100}

\* ------------------------------------------------ fit_transform: parts
Max2(a, b) == IF a >= b THEN a ELSE b
Min2(a, b) == IF a <= b THEN a ELSE b

\* Fault variant: a missing rank taken for rank 1.
compute_visibility_missing_first(a, rank) ==
    LET r == Max2(Scale, rank * Scale)
    IN NpExp(-((a * (r - Scale)) \div Scale))

\* Fault variant: a visibility that ignores the rank.
compute_visibility_flat(a, rank) == IF rank = NoRank THEN 0 ELSE Scale

\* _compute_visibility: 0.0 for a missing rank, else
\* r = max(1.0, float(rank)); exp(-alpha * (r - 1))
compute_visibility(a, rank) ==
    IF rank = NoRank THEN 0
    ELSE LET r == Max2(Scale, rank * Scale)
         IN NpExp(-((a * (r - Scale)) \div Scale))

\* The cells of a flag column: parse_serp_organic stores item.get(...) for
\* is_featured_snippet (True, False, or None for a null or missing key) and
\* the result of isin for in_people_also_ask (True, False).
FlagCells == {"True", "False", "None"}
\* Fault variant: every cell but False counted as set.
truthy_unless_false(cell) == cell # "False"
\* The truth value Python gives the cell in an if.
truthy(cell) == cell = "True"

\* _compute_feature_score: +0.6 for a featured snippet, +0.4 for people also
\* ask, each only when the column is there; min(1.0, score)
compute_feature_score(cols, row) ==
    LET snippet == IF "is_featured_snippet" \in cols /\ truthy(row.is_featured_snippet)
                   THEN (6 * Scale) \div 10 ELSE 0
        paa == IF "in_people_also_ask" \in cols /\ truthy(row.in_people_also_ask)
               THEN (4 * Scale) \div 10 ELSE 0
    IN Min2(Scale, snippet + paa)

\* fillna('')
fillna(cell) == IF cell = NaN THEN "" ELSE cell

\* tokenize, for the texts of the model: lower-case words without stopwords.
tokenize(text) ==
    CASE text = "ai video" -> {"ai", "video"}
      [] text = "ai video " -> {"ai", "video"}
      [] text = "cats video" -> {"cats", "video"}
      [] text = " cats dogs" -> {"cats", "dogs"}
      [] OTHER -> {}

\* The square root of a perfect square.
Root(n) == CHOOSE r \in 0 .. n : r * r = n

\* get_similarities: the cosine of the bag-of-words vector of the source
\* sentence with that of each query sentence, 0.0 where a vector is zero;
\* one value per query sentence.
get_similarities(source_sentence, query_sentences) ==
    [i \in DOMAIN query_sentences |->
        LET v0 == tokenize(source_sentence)
            vi == tokenize(query_sentences[i])
        IN IF v0 = {} \/ vi = {} THEN 0
           ELSE (Cardinality(v0 \cap vi) * Scale)
                    \div Root(Cardinality(v0) * Cardinality(vi))]

\* result_df["sem"] = self.similarity_func(keyword, texts)[0]: element 0 of
\* the returned list, a scalar, assigned to the whole column.
sem_column(sims, n) == [i \in 1 .. n |-> sims[1]]

\* result_df['rank_absolute'].apply(lambda x: 0), for auth
auth_of(rank) == 0

\* Fault variant: estimated clicks that fall with the rank.
est_clicks_from_rank(rank) == IF rank = NoRank THEN 0 ELSE Scale \div Max2(1, rank)
\* result_df['rank_absolute'].apply(lambda x: 0), for est_clicks
est_clicks_of(rank) == 0

\* Fault variant: dividing by the maximum instead of the range.
scale_column_by_max(col) ==
    LET col_min == ArrayMin(col)
        col_max == ArrayMax(col)
        denom == IF col_max # 0 THEN col_max ELSE Scale
    IN [i \in DOMAIN col |-> ((col[i] - col_min) * Scale) \div denom]

\* col_min, col_max of the batch; denom = (col_max - col_min) if it is not 0
\* else 1.0; (x - col_min) / denom
scale_column(col) ==
    LET col_min == ArrayMin(col)
        col_max == ArrayMax(col)
        denom == IF col_max - col_min # 0 THEN col_max - col_min ELSE Scale
    IN [i \in DOMAIN col |-> ((col[i] - col_min) * Scale) \div denom]

\* np.log for x >= 1: 2 * (z + z^3/3 + z^5/5), z = (x - 1) / (x + 1).
NpLog(x) ==
    LET z == ((x - Scale) * Scale) \div (x + Scale)
        z3 == (((z * z) \div Scale) * z) \div Scale
        z5 == (((z3 * z) \div Scale) * z) \div Scale
    IN 2 * (z + z3 \div 3 + z5 \div 5)

\* _compute_logit: lambdas[0] * vis + lambdas[1] * sem + lambdas[2] * auth
\*                 + lambdas[3] * feat + lambdas[4] * np.log(est_clicks + 1)
\* (lists are indexed from 0 in the source, sequences from 1 here).
compute_logit(lam, vis, sem, auth, feat, est_clicks) ==
    (lam[1] * vis + lam[2] * sem + lam[3] * auth + lam[4] * feat
        + lam[5] * NpLog(est_clicks + Scale)) \div Scale

\* ------------------------------------------------------ fit_transform
\* fit_transform(serp_df, keyword) of an estimator with weights lam and decay
\* a: what it raises or returns, and the calls of the scorer it made.
fit_transform(serp_df, keyword, lam, a) ==
    IF serp_df.is_none \/ serp_df.rows = <<>> \/ serp_df.columns = {}
    THEN Raised("ValueError", <<>>, <<>>)
    ELSE IF required_columns \ serp_df.columns # {}
    THEN Raised("ValueError", <<>>, <<>>)
    ELSE
    LET rows == serp_df.rows
        n == Len(rows)
        rank == [i \in 1 .. n |-> rows[i].rank_absolute]
        vis == [i \in 1 .. n |-> compute_visibility(a, rank[i])]
        title == [i \in 1 .. n |-> fillna(rows[i].title)]
        description == [i \in 1 .. n |-> fillna(rows[i].description)]
        text == [i \in 1 .. n |-> title[i] \o " " \o description[i]]
        sims == get_similarities(keyword, text)
        calls == <<[query |-> keyword, texts |-> text]>>
        sem == sem_column(sims, n)
        auth == [i \in 1 .. n |-> auth_of(rank[i])]
        feat == [i \in 1 .. n |-> compute_feature_score(serp_df.columns, rows[i])]
        est_clicks == [i \in 1 .. n |-> est_clicks_of(rank[i])]
        vis_scaled == scale_column(vis)
        sem_scaled == scale_column(sem)
        auth_scaled == scale_column(auth)
        feat_scaled == scale_column(feat)
        est_clicks_scaled == scale_column(est_clicks)
        logit == [i \in 1 .. n |->
                    compute_logit(lam, vis_scaled[i], sem_scaled[i], auth_scaled[i],
                                  feat_scaled[i], est_clicks_scaled[i])]
    IN  \* self.lambdas[k] of a list shorter than 5 raises IndexError; a longer
        \* list is read up to lambdas[4].
        IF Len(lam) < 5 THEN Raised("IndexError", calls, sims)
        ELSE [status |-> "ok", scorer_calls |-> calls, sims |-> sims,
              df |-> [title |-> title, description |-> description,
                      text_for_semantics |-> text,
                      vis |-> vis, sem |-> sem, auth |-> auth, feat |-> feat,
                      est_clicks |-> est_clicks,
                      vis_scaled |-> vis_scaled, sem_scaled |-> sem_scaled,
                      auth_scaled |-> auth_scaled, feat_scaled |-> feat_scaled,
                      est_clicks_scaled |-> est_clicks_scaled,
                      logit |-> logit,
                      domain_share |-> compute_domain_share(logit)]]

\* Fault variant: the columns written into the caller's frame.
caller_frame_inplace(serp_df, out) ==
    IF out.status = "none" \/ out.scorer_calls = <<>> THEN serp_df
    ELSE Frame(serp_df.columns \cup {"vis", "text_for_semantics", "sem"},
               [i \in DOMAIN serp_df.rows |->
                    [serp_df.rows[i] EXCEPT !.title = fillna(@),
                                            !.description = fillna(@)]])
\* result_df = serp_df.copy(): the caller's frame after the call.
caller_frame(serp_df, out) == serp_df

\* Most calls of fit_transform on one estimator.
MaxRuns == 3

\* The batch a caller goes on to after a run.
LaterFrames ==
    {Frame(AllColumns, <<Entry(2, "cats", "video", "True", "False"),
                         Entry(NoRank, NaN, "cats dogs", "True", "True")>>)}

\* ChatGPTVolumeEstimator(lambdas, alpha): the constructor stores what it is
\* given; the caller holds a frame.
EstInit ==
    /\ AcquisitionIdle
    /\ ShareIdle
    /\ PartIdle
    /\ lambdas \in LambdaVectors
    /\ alpha \in Alphas
    /\ serp_frame \in Frames
    /\ runs = 0
    /\ ret = NoRet
    /\ last_set = "none"

estimator_fit_transform ==
    /\ runs < MaxRuns
    /\ runs' = runs + 1
    /\ LET out == fit_transform(serp_frame, Keyword, lambdas, alpha)
           call == [serp_df |-> serp_frame, keyword |-> Keyword,
                    lambdas |-> lambdas, alpha |-> alpha]
       IN /\ ret' = [call |-> call,
                     repeated |-> (runs >= 1 /\ ret.call = call),
                     out |-> out]
          /\ serp_frame' = caller_frame(serp_frame, out)
    /\ UNCHANGED <<lambdas, alpha, last_set>>
    /\ UNCHANGED <<shareVars, partVars>>
    /\ UNCHANGED <<clientVars, semaphore, postVars, driverVars, bulkVars>>

\* set_lambdas: if len(lambdas) != 5: raise ValueError; self.lambdas = lambdas
set_lambdas(l) ==
    /\ last_set = "none"
    /\ IF Len(l) # 5
       THEN /\ last_set' = "ValueError"
            /\ UNCHANGED lambdas
       ELSE /\ last_set' = "ok"
            /\ lambdas' = l
    /\ UNCHANGED <<alpha, serp_frame, runs, ret>>
    /\ UNCHANGED <<shareVars, partVars>>
    /\ UNCHANGED <<clientVars, semaphore, postVars, driverVars, bulkVars>>

\* The caller builds the next batch.
new_batch(f) ==
    /\ runs >= 1
    /\ runs < MaxRuns
    /\ serp_frame # f
    /\ serp_frame' = f
    /\ UNCHANGED <<lambdas, alpha, runs, ret, last_set>>
    /\ UNCHANGED <<shareVars, partVars>>
    /\ UNCHANGED <<clientVars, semaphore, postVars, driverVars, bulkVars>>

EstNext ==
    \/ estimator_fit_transform
    \/ \E l \in LambdaVectors : set_lambdas(l)
    \/ \E f \in LaterFrames : new_batch(f)

EstSpec == EstInit /\ [][EstNext]_vars

\* ----------------------------------------------- claims on the estimator
\* The last call of fit_transform returned a frame.
Returned == runs >= 1 /\ ret.out.status = "ok"
\* The rows of the batch of the last call.
BatchRows == ret.call.serp_df.rows
AllEqual(col) == \A i, j \in DOMAIN col : col[i] = col[j]
AllZero(col) == \A i \in DOMAIN col : col[i] = 0
\* A frame fit_transform accepts: not None, not empty, the required columns.
ValidFrame(f) ==
    /\ ~f.is_none
    /\ f.rows # <<>>
    /\ {"rank_absolute", "title", "description"} \subseteq f.columns

\* C12 as stated: the share of the only entry of a batch is 1.0 exactly.  The
\* share exps[1] / (sum + eps * 1e-12) is 1 exactly when numerator and
\* denominator are the same number.
C12_SingleShareExactlyOne ==
    (Returned /\ Len(BatchRows) = 1) =>
        /\ ret.out.df.domain_share.exps[1] = ret.out.df.domain_share.sum
        /\ ret.out.df.domain_share.eps = 0

\* C12: the share of the only entry of a batch is 1 / (1 + 1e-12), whatever
\* the weights and alpha: within 1e-9 of 1.0, and below it.
C12_SingleShareNearOne ==
    (Returned /\ Len(BatchRows) = 1) =>
        /\ ret.out.df.domain_share.exps = <<Scale>>
        /\ ret.out.df.domain_share.sum = Scale
        /\ ret.out.df.domain_share.eps = Epsilon

C12_Witness ==
    /\ Returned
    /\ Len(BatchRows) = 1
    /\ ret.call.lambdas[1] < 0
    /\ ret.call.alpha > 0
    /\ ret.out.df.domain_share.done

\* C13: one run of fit_transform calls the scorer exactly once, with the query
\* and the list of the title-and-description texts of all entries, and the raw
\* sem value of entry i is the i-th similarity the scorer returned.
C13_SemPerEntry ==
    Returned =>
        /\ Len(ret.out.scorer_calls) = 1
        /\ ret.out.scorer_calls[1].query = ret.call.keyword
        /\ ret.out.scorer_calls[1].texts =
              [i \in DOMAIN BatchRows |->
                  fillna(BatchRows[i].title) \o " " \o fillna(BatchRows[i].description)]
        /\ Len(ret.out.sims) = Len(BatchRows)
        /\ \A i \in DOMAIN BatchRows : ret.out.df.sem[i] = ret.out.sims[i]

\* The raw and the scaled values of the five feature columns.
FeatureColumns ==
    {<<ret.out.df.vis, ret.out.df.vis_scaled>>,
     <<ret.out.df.sem, ret.out.df.sem_scaled>>,
     <<ret.out.df.auth, ret.out.df.auth_scaled>>,
     <<ret.out.df.feat, ret.out.df.feat_scaled>>,
     <<ret.out.df.est_clicks, ret.out.df.est_clicks_scaled>>}

\* C14: after scaling, each of the five feature columns has minimum 0 and
\* maximum 1 over the batch of the run, unless all its raw values are equal
\* (as in a single-entry batch): then every scaled value is 0.  The entries
\* keep the order of their raw values.
C14_MinMaxScaled ==
    Returned =>
        \A c \in FeatureColumns :
            /\ DOMAIN c[2] = DOMAIN BatchRows
            /\ IF AllEqual(c[1]) THEN AllZero(c[2])
               ELSE /\ ArrayMin(c[2]) = 0
                    /\ ArrayMax(c[2]) = Scale
                    /\ \A i \in DOMAIN c[1] :
                          /\ c[1][i] = ArrayMin(c[1]) => c[2][i] = 0
                          /\ c[1][i] = ArrayMax(c[1]) => c[2][i] = Scale

C14_Witness ==
    /\ Returned
    /\ runs >= 2
    /\ Len(BatchRows) = MaxBatch
    /\ ~AllEqual(ret.out.df.vis)
    /\ ~AllEqual(ret.out.df.feat)
    /\ \E i \in DOMAIN BatchRows :
          ret.out.df.vis_scaled[i] \notin {0, Scale}

C17_WrongLengthRejected ==
    /\ (runs >= 1 /\ ValidFrame(ret.call.serp_df) /\ Len(ret.call.lambdas) # 5) =>
            /\ ret.out.status \in {"ValueError", "IndexError"}
            /\ ret.out.df.logit = <<>>
    /\ last_set = "ok" => Len(lambdas) = 5

\* C18: fit_transform raises a validation error for a frame that is None or
\* empty or lacks one of rank_absolute, title, description, before the scorer
\* is called and before any column is computed; a missing title or description
\* cell of a row is no error and is read as the empty string.
C18_ValidationFirst ==
    runs >= 1 =>
        IF ~ValidFrame(ret.call.serp_df)
        THEN /\ ret.out.status = "ValueError"
             /\ ret.out.scorer_calls = <<>>
             /\ ret.out.df = NoDf
        ELSE /\ ret.out.status # "ValueError"
             /\ Len(ret.out.scorer_calls) = 1
             /\ \A i \in DOMAIN BatchRows :
                   /\ BatchRows[i].title = NaN =>
                         ret.out.scorer_calls[1].texts[i] = "" \o " " \o "cats dogs"
                   /\ BatchRows[i].description = NaN =>
                         \E t \in {"", "ai video"} :
                            ret.out.scorer_calls[1].texts[i] = t \o " " \o ""
             /\ ret.out.status = "ok" =>
                   \A i \in DOMAIN BatchRows :
                      /\ BatchRows[i].title = NaN => ret.out.df.title[i] = ""
                      /\ BatchRows[i].description = NaN => ret.out.df.description[i] = ""

C18_Witness ==
    /\ runs >= 1
    /\ ret.call.serp_df.rows # <<>>
    /\ "title" \notin ret.call.serp_df.columns
    /\ ret.out.status = "ValueError"
    /\ Len(ret.call.lambdas) = 5

\* The end-to-end scenario: ranks 1, 2, 3 with the same texts and flags, alpha
\* 0.15, the default weights of the estimator or of the driver.
RankScenario ==
    /\ runs >= 1
    /\ ret.call.serp_df = Frame(AllColumns,
                                <<Entry(1, "ai video", NaN, "False", "False"),
                                  Entry(2, "ai video", NaN, "False", "False"),
                                  Entry(3, "ai video", NaN, "False", "False")>>)
    /\ ret.call.alpha = (15 * Scale) \div 100
    /\ ret.call.lambdas \in {<<Scale, Scale, Scale, Scale, Scale>>,
                             <<(3 * Scale) \div 2, Scale, Scale, Scale, Scale>>}

\* C19: in the scenario the shares fall strictly with the rank and sum to 1.0
\* (to within 1e-9).
C19_SharesFallWithRank ==
    RankScenario =>
        /\ ret.out.status = "ok"
        /\ ret.out.df.domain_share.exps[1] > ret.out.df.domain_share.exps[2]
        /\ ret.out.df.domain_share.exps[2] > ret.out.df.domain_share.exps[3]
        /\ ret.out.df.domain_share.sum = SumSeq(ret.out.df.domain_share.exps)
        /\ ret.out.df.domain_share.sum >= EpsilonOverTolerance

C19_Witness ==
    /\ RankScenario
    /\ Returned
    /\ ret.out.df.domain_share.exps[3] > 0

\* Other values of the authority and clicks weights.
WeightValues == {-Scale, 0, Scale, 3 * Scale}

\* C20: raw auth and est_clicks are 0 for every entry whatever its rank, so
\* both scaled columns are 0, the argument of ln in the clicks term is 1, and
\* logits and shares are the same for all authority and clicks weights.
C20_AuthClicksInert ==
    Returned =>
        /\ AllZero(ret.out.df.auth)
        /\ AllZero(ret.out.df.est_clicks)
        /\ AllZero(ret.out.df.auth_scaled)
        /\ AllZero(ret.out.df.est_clicks_scaled)
        /\ \A i \in DOMAIN BatchRows :
              /\ ret.out.df.est_clicks_scaled[i] + Scale = Scale
              /\ NpLog(ret.out.df.est_clicks_scaled[i] + Scale) = 0
              /\ \A w_auth, w_clicks \in WeightValues :
                    compute_logit([ret.call.lambdas EXCEPT ![3] = w_auth,
                                                           ![5] = w_clicks],
                                  ret.out.df.vis_scaled[i], ret.out.df.sem_scaled[i],
                                  ret.out.df.auth_scaled[i], ret.out.df.feat_scaled[i],
                                  ret.out.df.est_clicks_scaled[i])
                        = ret.out.df.logit[i]
        /\ ret.out.df.domain_share = compute_domain_share(ret.out.df.logit)

C20_Witness ==
    /\ Returned
    /\ ret.call.lambdas[3] = 2 * Scale
    /\ ret.call.lambdas[5] = 3 * Scale
    /\ \E i, j \in DOMAIN BatchRows :
          /\ BatchRows[i].rank_absolute = 1
          /\ BatchRows[j].rank_absolute = 3

\* =========================================== the parts, called on their own
\* A steep decay a caller may configure (--alpha 8), and the ranks at the end
\* of a page of 100 results, where alpha * (rank - 1) is past the underflow of
\* np.exp.
SteepAlpha == 8 * Scale
DeepRanks == {100, 101}
\* The ranks _compute_visibility is called with at the other alphas: missing,
\* and the top three.
TopRanks == {NoRank, 1, 2, 3}

VisInputs ==
    {[done |-> FALSE, alpha |-> a, ranks |-> <<r1, r2>>, out |-> <<>>] :
        a \in Alphas \cup {Scale \div 2}, r1 \in TopRanks, r2 \in TopRanks}
    \cup {[done |-> FALSE, alpha |-> SteepAlpha, ranks |-> <<r1, r2>>, out |-> <<>>] :
        r1 \in {NoRank, 1} \cup DeepRanks, r2 \in {NoRank, 1} \cup DeepRanks}

VisInit ==
    /\ vis_call \in VisInputs
    /\ feat_call = NoFeatCall
    /\ parse_call = NoParseCall

\* A row with its two flag cells, in a frame that has both, one or none of
\* the flag columns.
FlagColumns == {"is_featured_snippet", "in_people_also_ask"}
FeatInputs ==
    {[done |-> FALSE, columns |-> cols,
      row |-> [is_featured_snippet |-> fs, in_people_also_ask |-> paa],
      out |-> 0] :
        cols \in SUBSET FlagColumns, fs \in FlagCells, paa \in FlagCells}

FeatInit ==
    /\ vis_call = NoVisCall
    /\ feat_call \in FeatInputs
    /\ parse_call = NoParseCall

\* _compute_visibility applied to both ranks by an estimator with this alpha.
visibility ==
    /\ vis_call.ranks # <<>>
    /\ ~vis_call.done
    /\ vis_call' = [vis_call EXCEPT
                        !.done = TRUE,
                        !.out = [k \in 1 .. 2 |->
                                    compute_visibility(vis_call.alpha, vis_call.ranks[k])]]
    /\ UNCHANGED <<feat_call, parse_call>>
    /\ UNCHANGED <<shareVars, objectVars>>
    /\ UNCHANGED <<clientVars, semaphore, postVars, driverVars, bulkVars>>

\* C21 as stated: 1 for rank 1, a value in (0, 1] for every rank >= 1, a
\* strictly smaller value for a strictly larger rank when alpha > 0, and 0 for
\* a missing rank.
C21_VisibilityStrict ==
    vis_call.done =>
        /\ \A k \in 1 .. 2 :
              /\ vis_call.ranks[k] = NoRank => vis_call.out[k] = 0
              /\ vis_call.ranks[k] = 1 => vis_call.out[k] = Scale
              /\ vis_call.ranks[k] >= 1 =>
                    (0 < vis_call.out[k] /\ vis_call.out[k] <= Scale)
        /\ (vis_call.alpha > 0 /\ 1 <= vis_call.ranks[1]
                /\ vis_call.ranks[1] < vis_call.ranks[2]) =>
              vis_call.out[1] > vis_call.out[2]

\* C21: 1 for rank 1, a value in [0, 1] for every rank >= 1, never a larger
\* value for a larger rank, and 0 for a missing rank.
C21_VisibilityWeak ==
    vis_call.done =>
        /\ \A k \in 1 .. 2 :
              /\ vis_call.ranks[k] = NoRank => vis_call.out[k] = 0
              /\ vis_call.ranks[k] = 1 => vis_call.out[k] = Scale
              /\ vis_call.ranks[k] >= 1 =>
                    (0 <= vis_call.out[k] /\ vis_call.out[k] <= Scale)
        /\ (1 <= vis_call.ranks[1] /\ vis_call.ranks[1] < vis_call.ranks[2]) =>
              vis_call.out[1] >= vis_call.out[2]

C21_Witness ==
    /\ vis_call.done
    /\ vis_call.alpha > 0
    /\ vis_call.ranks = <<2, 3>>
    /\ vis_call.out[1] > vis_call.out[2]
    /\ vis_call.out[2] > 0

\* _compute_feature_score applied to the row.
feature_score ==
    /\ feat_call \in FeatInputs
    /\ feat_call' = [feat_call EXCEPT
                        !.done = TRUE,
                        !.out = compute_feature_score(feat_call.columns, feat_call.row)]
    /\ UNCHANGED <<vis_call, parse_call>>
    /\ UNCHANGED <<shareVars, objectVars>>
    /\ UNCHANGED <<clientVars, semaphore, postVars, driverVars, bulkVars>>

\* The flag is there and true.
FlagSet(c) == c \in feat_call.columns /\ feat_call.row[c] = "True"

\* C22: the raw feat value is 0 when neither flag is true, 0.6 when only
\* is_featured_snippet is, 0.4 when only in_people_also_ask is and 1.0 when
\* both are; it never exceeds 1.0; an absent or null flag counts as false.
C22_FeatureScore ==
    feat_call.done =>
        /\ feat_call.out =
              (IF FlagSet("is_featured_snippet") THEN (6 * Scale) \div 10 ELSE 0)
              + (IF FlagSet("in_people_also_ask") THEN (4 * Scale) \div 10 ELSE 0)
        /\ feat_call.out <= Scale
        /\ (FlagSet("is_featured_snippet") /\ FlagSet("in_people_also_ask")) =>
              feat_call.out = Scale

C22_Witness ==
    /\ feat_call.done
    /\ feat_call.columns = {"in_people_also_ask"}
    /\ feat_call.row.is_featured_snippet = "True"
    /\ feat_call.row.in_people_also_ask = "True"
    /\ feat_call.out = (4 * Scale) \div 10

\* ---------------------------------------------------------------------
\* parse_serp_organic on one task result.

TaskStatusOk == 20000
TaskStatusFailed == 40501
MaxItems == 3

Item(type, rank, domain, nested) ==
    [type |-> type, rank_absolute |-> rank, domain |-> domain, nested |-> nested]

\* nested: the domains of items[*].expanded_element[*] of a people_also_ask
\* item, in order.
ItemPool ==
    {Item("organic", 1, "a.com", <<>>),
     Item("organic", 2, "b.com", <<>>),
     Item("people_also_ask", 3, "None", <<>>),
     Item("people_also_ask", 3, "None", <<"a.com">>),
     Item("people_also_ask", 4, "None", <<"b.com", "a.com">>),
     Item("related_searches", 5, "a.com", <<"b.com">>)}

ItemSeqs == UNION {[1 .. n -> ItemPool] : n \in 0 .. MaxItems}

RECURSIVE organic_records(_)
organic_records(items) ==
    IF items = <<>> THEN <<>>
    ELSE LET item == Head(items)
         IN  (IF item.type = "organic"
              THEN <<[rank_absolute |-> item.rank_absolute, domain |-> item.domain]>>
              ELSE <<>>)
             \o organic_records(Tail(items))

RECURSIVE domains_in_people_also_ask(_)
domains_in_people_also_ask(items) ==
    IF items = <<>> THEN <<>>
    ELSE LET item == Head(items)
         IN  (IF item.type = "people_also_ask" THEN item.nested ELSE <<>>)
             \o domains_in_people_also_ask(Tail(items))

isin(d, list) == \E k \in 1 .. Len(list) : list[k] = d

\* Fault variant: a people-also-ask item only marks the entries after it.
RECURSIVE flagged_after(_, _)
flagged_after(items, seen) ==
    IF items = <<>> THEN <<>>
    ELSE LET item == Head(items)
         IN  IF item.type = "organic"
             THEN <<[rank_absolute |-> item.rank_absolute, domain |-> item.domain,
                     in_people_also_ask |-> isin(item.domain, seen)]>>
                  \o flagged_after(Tail(items), seen)
             ELSE IF item.type = "people_also_ask"
             THEN flagged_after(Tail(items), seen \o item.nested)
             ELSE flagged_after(Tail(items), seen)

parse_serp_organic_in_passing(status_code, items) ==
    IF status_code # TaskStatusOk
    THEN [raised |-> FALSE, records |-> <<>>]
    ELSE IF organic_records(items) = <<>>
    THEN [raised |-> TRUE, records |-> <<>>]
    ELSE [raised |-> FALSE, records |-> flagged_after(items, <<>>)]

\* A failed task gives the empty frame; a frame built from no records has
\* no "domain" column, and reading it raises KeyError.
parse_serp_organic(status_code, items) ==
    IF status_code # TaskStatusOk
    THEN [raised |-> FALSE, records |-> <<>>]
    ELSE LET records == organic_records(items)
             paa == domains_in_people_also_ask(items)
         IN  IF records = <<>>
             THEN [raised |-> TRUE, records |-> <<>>]
             ELSE [raised |-> FALSE,
                   records |->
                       [k \in 1 .. Len(records) |->
                           [rank_absolute |-> records[k].rank_absolute,
                            domain |-> records[k].domain,
                            in_people_also_ask |-> isin(records[k].domain, paa)]]]

ParseInputs ==
    {[done |-> FALSE, status_code |-> c, items |-> items,
      out |-> [raised |-> FALSE, records |-> <<>>]] :
        c \in {TaskStatusOk, TaskStatusFailed}, items \in ItemSeqs}

ParseInit ==
    /\ vis_call = NoVisCall
    /\ feat_call = NoFeatCall
    /\ parse_call \in ParseInputs

parse ==
    /\ parse_call \in ParseInputs
    /\ parse_call' = [parse_call EXCEPT
                         !.done = TRUE,
                         !.out = parse_serp_organic(parse_call.status_code,
                                                    parse_call.items)]
    /\ UNCHANGED <<vis_call, feat_call>>
    /\ UNCHANGED <<shareVars, objectVars>>
    /\ UNCHANGED <<clientVars, semaphore, postVars, driverVars, bulkVars>>

PartsInit ==
    /\ AcquisitionIdle
    /\ ShareIdle
    /\ ObjectIdle
    /\ VisInit \/ FeatInit \/ ParseInit

PartsNext == visibility \/ feature_score \/ parse

PartsSpec == PartsInit /\ [][PartsNext]_vars

\* Positions of the organic items, in item order.
RECURSIVE OrganicPositions(_, _)
OrganicPositions(items, k) ==
    IF k > Len(items) THEN <<>>
    ELSE (IF items[k].type = "organic" THEN <<k>> ELSE <<>>)
         \o OrganicPositions(items, k + 1)

InSomePaaItem(d, items) ==
    \E k \in 1 .. Len(items) :
        /\ items[k].type = "people_also_ask"
        /\ isin(d, items[k].nested)

\* C23: parsing a successful ranking task result gives one ResultEntry per
\* item tagged organic and for no other item, in item order; an entry's
\* in_people_also_ask is true exactly when its domain occurs in the nested
\* domain list of some people-also-ask item of the same task result.
C23_EntryPerOrganicItem ==
    (parse_call.done /\ parse_call.status_code = TaskStatusOk) =>
        LET items == parse_call.items
            pos == OrganicPositions(items, 1)
            out == parse_call.out
        IN  /\ ~out.raised
            /\ Len(out.records) = Len(pos)
            /\ \A k \in 1 .. Len(pos) :
                  /\ k <= Len(out.records)
                  /\ out.records[k].domain = items[pos[k]].domain
                  /\ out.records[k].rank_absolute = items[pos[k]].rank_absolute
                  /\ out.records[k].in_people_also_ask
                        = InSomePaaItem(items[pos[k]].domain, items)

\* The same, for task results that hold at least one organic item.
C23_EntryPerOrganicItemWhenAny ==
    (/\ parse_call.done
     /\ parse_call.status_code = TaskStatusOk
     /\ OrganicPositions(parse_call.items, 1) # <<>>) =>
        LET items == parse_call.items
            pos == OrganicPositions(items, 1)
            out == parse_call.out
        IN  /\ ~out.raised
            /\ Len(out.records) = Len(pos)
            /\ \A k \in 1 .. Len(pos) :
                  /\ out.records[k].domain = items[pos[k]].domain
                  /\ out.records[k].rank_absolute = items[pos[k]].rank_absolute
                  /\ out.records[k].in_people_also_ask
                        = InSomePaaItem(items[pos[k]].domain, items)

\* A successful task result whose items hold no organic item.
C23_NoOrganicRaises ==
    /\ parse_call.done
    /\ parse_call.status_code = TaskStatusOk
    /\ parse_call.items = <<Item("people_also_ask", 3, "None", <<"a.com">>)>>
    /\ parse_call.out.raised

\* ---------------------------------------------------------------------
\* Permits and the output file.

Started(r) == pc[r] # "idle"

\* C24: a request acquires one permit before its first attempt and keeps it
\* through all its attempts and backoff delays; the permit is released on
\* every way out of _post (success, raised error, exhausted attempts), so the
\* free permits are max_concurrency less one per request between its first
\* attempt and its end, and equal max_concurrency once every started request
\* has finished.
C24_PermitsNeverLeak ==
    entry # "none" =>
        /\ semaphore = max_concurrency - NumInFlight
        /\ \A r \in Requests : posts[r] >= 1 => pc[r] # "acquire"
        /\ (\A r \in Requests : Started(r) => Finished(r)) =>
              semaphore = max_concurrency

\* C24 witness: every job of a bulk_fetch has finished, one by a raised
\* error after a backoff, one with a value, and all permits are free.
C24_Witness ==
    /\ entry = "bulk_fetch"
    /\ jobs > max_concurrency
    /\ \A r \in 1 .. jobs : Finished(r)
    /\ \E r \in 1 .. jobs : pc[r] = "raised" /\ delays[r] # <<>>
    /\ \E r \in 1 .. jobs : pc[r] = "returned" /\ result[r] # "None"
    /\ semaphore = max_concurrency

RecordsFor(k) ==
    {i \in 1 .. Len(file.records) : file.records[i].endpoint = k}

\* C25: after fetch_keyword_data ends with the required-source failure no
\* file exists at the output path; after a successful call the file holds
\* exactly one {endpoint, data} record per source whose result is non-null
\* and none for a null source.
C25_OutputFileFrame ==
    /\ fkd = "raised" => file = NoFile
    /\ fkd = "returned" =>
          /\ file.exists
          /\ \A i \in 1 .. Len(file.records) : file.records[i].endpoint \in Sources
          /\ \A k \in Sources :
                IF Get(all_data, k) = "None"
                THEN RecordsFor(k) = {}
                ELSE /\ Cardinality(RecordsFor(k)) = 1
                     /\ \A i \in RecordsFor(k) : file.records[i].data = all_data[k]

\* C25 witness: a successful call whose AI keyword source is null: the file
\* holds the SERP record alone.
C25_Witness ==
    /\ fkd = "returned"
    /\ AiKey \in DOMAIN all_data
    /\ all_data[AiKey] = "None"
    /\ Len(file.records) = 1
    /\ file.records[1].endpoint = SerpKey
====
